---- MODULE Spec2Model ----
(***************************************************************************)
(* Model of gui/static/js/lektorInterop.jsx: the executable locator, the   *)
(* process launcher, the two one-shot operations (checkLektor,             *)
(* analyzeProject) and the server handle (LektorServer).                   *)
(*                                                                         *)
(* Text is a sequence of units.  A unit is one character ("a", "1", "{")   *)
(* or one whole word or path ("version", "/usr/bin/lektor"); the white     *)
(* space characters are the units "SP", "TAB", "CR" and "LF".  JavaScript's *)
(* null and undefined are the one-unit sequences NULL and UNDEFINED.       *)
(***************************************************************************)
EXTENDS Integers, Sequences, FiniteSets, TLC

\* ------------------------------------------------------------------ bounds

\* Number of calls of checkLektor / analyzeProject / spawnServer in one run of
\* Spec, and in one run of SpecSolo.
MaxCalls == 2

SoloCalls == 1

\* Number of calls in one run of SpecSilent.
SilentCalls == 3

\* Number of calls in one run of SpecLaunch.
LaunchCalls == 2

\* Number of calls in one run of SpecOverlap.
OverlapCalls == 2

\* Length, in units, of the longest output of the child in SpecProbe.
MaxProbeLen == 5

\* ------------------------------------------------------------ JS values

NULL == <<"null">>

UNDEFINED == <<"undefined">>

\* JavaScript truthiness of a string, null or undefined.
Truthy(v) == v # NULL /\ v # UNDEFINED /\ v # <<>>

\* a || b
Or(a, b) == IF Truthy(a) THEN a ELSE b

IsWhite(u) == u \in {"SP", "TAB", "CR", "LF"}

IsLineTerminator(u) == u \in {"CR", "LF"}

RECURSIVE TrimLeft(_)
TrimLeft(s) ==
  IF s # <<>> /\ IsWhite(Head(s)) THEN TrimLeft(Tail(s)) ELSE s

RECURSIVE TrimRight(_)
TrimRight(s) ==
  IF s # <<>> /\ IsWhite(s[Len(s)])
  THEN TrimRight(SubSeq(s, 1, Len(s) - 1))
  ELSE s

Trim(s) == TrimLeft(TrimRight(s))

\* All prefixes of a text, the empty one included.
Prefixes(s) == {SubSeq(s, 1, n) : n \in 0..Len(s)}

\* ------------------------------------------------------------------- state

VARIABLES
  platform,          \* process.platform
  processEnv,        \* process.env
  currentLanguage,   \* i18n.currentLanguage
  lektorExecutable,  \* this._lektorExecutable
  lastFind,          \* the last run of findLektorExecutable and what it saw
  calls              \* the calls made so far, in order

vars ==
  <<platform, processEnv, currentLanguage, lektorExecutable, lastFind, calls>>

\* ------------------------------------------------------- executable locator

Platforms == {"darwin", "linux", "win32"}

\* path.join(getResourceFolder(), 'lektor')
BundledExe == <<"/res/lektor">>

\* What `which lektor` can answer: status 1 and no output, or status 0 and a
\* path followed by a line feed (possibly padded with white space).
WhichResults ==
  { [status |-> 1, stdout |-> <<>>],
    [status |-> 0, stdout |-> <<"/usr/bin/lektor", "LF">>],
    [status |-> 0, stdout |-> <<"SP", "/opt/lektor", "SP", "LF">>] }

\* process.platform is a string (line 32 compares it with 'win32'); the call
\* expression process.platform() of line 20 therefore raises a TypeError.
PlatformCallThrows == TRUE

\* accessOk: fs.accessSync(macExe, fs.X_OK) would not throw.
findBundledLektorExecutable(plat, accessOk) ==
  IF PlatformCallThrows
  THEN NULL                                   \* catch (e) { return null; }
  ELSE IF plat = "darwin"
       THEN (IF accessOk THEN BundledExe ELSE NULL)
       ELSE UNDEFINED                         \* falls off the end

\* findGlobalLektorExecutable without the trim() of line 40.
findGlobalLektorExecutableUntrimmed(plat, which) ==
  IF plat = "win32"
  THEN <<"lektor">>
  ELSE IF which.status = 0 THEN which.stdout ELSE NULL

findGlobalLektorExecutable(plat, which) ==
  IF plat = "win32"
  THEN <<"lektor">>
  ELSE IF which.status = 0 THEN Trim(which.stdout) ELSE NULL

\* bundled || global; the right operand is evaluated only when the left is falsy.
findLektorExecutable(plat, accessOk, which) ==
  LET b == findBundledLektorExecutable(plat, accessOk)
  IN  [ ret           |-> Or(b, findGlobalLektorExecutable(plat, which)),
        bundled       |-> b,
        globalInvoked |-> ~Truthy(b),
        whichInvoked  |-> ~Truthy(b) /\ plat # "win32" ]

\* getLektorExecutable without the test of the cached value.
getLektorExecutableNoCache(cached, plat, accessOk, which) ==
  LET f == findLektorExecutable(plat, accessOk, which)
  IN  [ret |-> f.ret, cache |-> f.ret, looked |-> TRUE]

\* getLektorExecutable that also keeps the outcome of a lookup that found
\* nothing.
getLektorExecutableCachesFailure(cached, plat, accessOk, which) ==
  IF cached # NULL \/ lastFind.done
  THEN [ret |-> cached, cache |-> cached, looked |-> FALSE]
  ELSE LET f == findLektorExecutable(plat, accessOk, which)
       IN  [ret |-> f.ret, cache |-> f.ret, looked |-> TRUE]

\* LektorInterop.getLektorExecutable: cached is this._lektorExecutable.
getLektorExecutable(cached, plat, accessOk, which) ==
  IF cached # NULL
  THEN [ret |-> cached, cache |-> cached, looked |-> FALSE]
  ELSE LET f == findLektorExecutable(plat, accessOk, which)
       IN  [ret |-> f.ret, cache |-> f.ret, looked |-> TRUE]

\* ------------------------------------------------------------ text functions

\* (data + '').split(/\r?\n/): the pieces between separators, a separator being
\* a line feed or a carriage return directly followed by a line feed.
RECURSIVE SplitAcc(_, _)
SplitAcc(s, cur) ==
  IF s = <<>> THEN <<cur>>
  ELSE IF Head(s) = "LF"
       THEN <<cur>> \o SplitAcc(Tail(s), <<>>)
  ELSE IF Head(s) = "CR" /\ Len(s) >= 2 /\ s[2] = "LF"
       THEN <<cur>> \o SplitAcc(Tail(Tail(s)), <<>>)
  ELSE SplitAcc(Tail(s), Append(cur, Head(s)))

SplitLines(data) == SplitAcc(data, <<>>)

\* The word 'version' under the i flag.
IsVersionWord(u) == u \in {"version", "Version", "VERSION"}

\* Last index of the white-space run that starts at index i (i - 1 if s[i] is
\* not white space or i is past the end).
RECURSIVE RunEnd(_, _)
RunEnd(s, i) ==
  IF i <= Len(s) /\ IsWhite(s[i]) THEN RunEnd(s, i + 1) ELSE i - 1

\* One attempt of /\s+\S+\s+(.*?)\s*$/i at index i: any word where 'version'
\* should stand.
MatchAtAnyWord(s, i) ==
  LET j    == RunEnd(s, i)
      k    == RunEnd(s, j + 2)
      rest == SubSeq(s, k + 1, Len(s))
      grp  == TrimRight(rest)
  IN  IF /\ j >= i
         /\ j + 1 <= Len(s)
         /\ k >= j + 2
         /\ \A n \in 1..Len(grp) : ~IsLineTerminator(grp[n])
      THEN [matched |-> TRUE, group |-> grp]
      ELSE [matched |-> FALSE, group |-> <<>>]

\* One attempt of /\s+version\s+(.*?)\s*$/i at index i.  Both \s+ are greedy
\* and must end where the next token starts; the lazy group then grows up to
\* the last character that is not white space, and "." matches no line
\* terminator.  Giving a white-space run back to the group cannot help: the
\* group would still have to cross the same characters.
MatchAt(s, i) ==
  LET j    == RunEnd(s, i)
      k    == RunEnd(s, j + 2)
      rest == SubSeq(s, k + 1, Len(s))
      grp  == TrimRight(rest)
  IN  IF /\ j >= i
         /\ j + 1 <= Len(s)
         /\ IsVersionWord(s[j + 1])
         /\ k >= j + 2
         /\ \A n \in 1..Len(grp) : ~IsLineTerminator(grp[n])
      THEN [matched |-> TRUE, group |-> grp]
      ELSE [matched |-> FALSE, group |-> <<>>]

\* buf.match(/\s+version\s+(.*?)\s*$/i): the leftmost index where an attempt
\* succeeds; group is match[1].
VersionMatch(buf) ==
  LET starts == {i \in 1..Len(buf) : MatchAt(buf, i).matched}
  IN  IF starts = {}
      THEN [matched |-> FALSE, group |-> <<>>]
      ELSE MatchAt(buf, CHOOSE i \in starts : \A n \in starts : i <= n)

\* JSON.parse on texts made of "{", "}", the digit "1", white space and other
\* characters: a number or the empty object, white space allowed around it (and
\* inside the braces); anything else is a SyntaxError.
JSONParse(buf) ==
  LET t == Trim(buf)
  IN  IF t # <<>> /\ \A n \in 1..Len(t) : t[n] = "1"
      THEN [ok |-> TRUE, value |-> <<"number">> \o t]
      ELSE IF /\ Len(t) >= 2
              /\ t[1] = "{"
              /\ t[Len(t)] = "}"
              /\ \A n \in 2..(Len(t) - 1) : IsWhite(t[n])
      THEN [ok |-> TRUE, value |-> <<"object">>]
      ELSE [ok |-> FALSE, value |-> <<>>]

\* ------------------------------------------------------------------- calls

\* What the children write to stdout, by operation.  A child may stop at any
\* point of its output and the output may arrive in any chunks.
VersionOutputs ==
  { <<"Lektor", "SP", "version", "SP", "1.0", "LF">>,
    <<"VERSION", "SP", "2.0">> }

ProjectOutputs ==
  { <<"{", "}", "LF">>,
    <<"1", "1">> }

ServerOutputs ==
  { <<"a", "LF", "b">>,
    <<"a", "CR", "LF">> }

Outputs(kind) ==
  IF kind = "check" THEN VersionOutputs
  ELSE IF kind = "analyze" THEN ProjectOutputs
  ELSE ServerOutputs

\* The exit code handed to a 'close' listener: the child's own exit code, or
\* null when the signal of shutdown() ended it.
Codes(c) == IF c.killed THEN {"0", "null"} ELSE {"0", "1"}

\* options.port as the caller passes it.
PortInputs == {"undefined", "0", "8080"}

ProjectPath == "/proj"

\* process.env of the GUI process: with or without the two variables
\* spawnLektor sets.
ProcessEnvs ==
  { [PATH |-> "/usr/bin"],
    [PATH |-> "/usr/bin", HOME |-> "/home/u"],
    [PATH |-> "/bin", LEKTOR_RUN_FROM_UI |-> "0", LEKTOR_UI_LANG |-> "fr"] }

\* The units of the outputs of `lektor --version` in SpecProbe: white space,
\* the word 'version' in two letter cases, and a word that is not 'version'.
ProbeUnits == {"SP", "LF", "version", "VERSION", "1.0"}

\* options.port as the caller may set it after spawnServer has returned.
LaterPorts == {"9090"}

\* i18n.currentLanguage
Languages == {"en", "de"}

\* {}
NoEnv == [key \in {} |-> ""]

\* A call of one of the three operations with everything it owns: the promise
\* (one-shot operations), the child, the listener's buffer, the server handle.
NewCall(kind, exe, looked) ==
  [ kind      |-> kind,
    exe       |-> exe,        \* what getLektorExecutable returned
    looked    |-> looked,     \* whether that call ran findLektorExecutable
    launched  |-> FALSE,      \* spawnLektor was called
    launchExe |-> <<>>,
    args      |-> <<>>,
    env       |-> NoEnv,      \* the env option handed to childProcess.spawn
    threw     |-> FALSE,      \* the operation threw instead of returning
    child     |-> "none",     \* none | running | closed | errored
    spawns    |-> 0,          \* children childProcess.spawn made for this call
    thisChild |-> 0,          \* this._child: which of them the handle holds
    code      |-> "",
    buf       |-> <<>>,
    out       |-> <<>>,       \* what the child of a one-shot call has written
    promise   |-> "none",     \* none | pending | resolved | rejected
    value     |-> <<>>,
    settles   |-> 0,          \* calls of resolve or reject
    parses    |-> 0,          \* calls of JSON.parse
    uncaught  |-> FALSE,      \* a listener threw
    handle    |-> FALSE,      \* a LektorServer was returned
    state     |-> "",
    port      |-> "",         \* options.port
    portIn    |-> "",         \* options.port when spawnServer was called
    killed    |-> FALSE,
    chunks    |-> <<>>,       \* the data events of the server's stdout
    log       |-> <<>> ]      \* the calls of the status-line callback

Resolve(c, v) ==
  [c EXCEPT !.settles = @ + 1,
            !.promise = IF @ = "pending" THEN "resolved" ELSE @,
            !.value   = IF c.promise = "pending" THEN v ELSE @]

Reject(c, msg) ==
  [c EXCEPT !.settles = @ + 1,
            !.promise = IF @ = "pending" THEN "rejected" ELSE @,
            !.value   = IF c.promise = "pending" THEN msg ELSE @]

\* var env = {}; Object.keys(process.env).forEach((key) => { env[key] = ... })
CopyEnv(penv) == [key \in DOMAIN penv |-> penv[key]]

\* env.<key> = value
SetEnv(env, key, value) ==
  [k \in DOMAIN env \cup {key} |-> IF k = key THEN value ELSE env[k]]

\* The env object spawnLektor builds from process.env and the UI language.
LaunchEnv(penv, lang) ==
  SetEnv(SetEnv(CopyEnv(penv), "LEKTOR_RUN_FROM_UI", "1"),
         "LEKTOR_UI_LANG", lang)

\* spawnLektor that starts from an empty env and skips the copy of process.env.
spawnLektorNoCopy(c, exe, args) ==
  LET env == SetEnv(SetEnv(NoEnv, "LEKTOR_RUN_FROM_UI", "1"),
                    "LEKTOR_UI_LANG", currentLanguage)
  IN  IF exe = NULL \/ exe = UNDEFINED
      THEN [c EXCEPT !.launched = TRUE, !.launchExe = exe, !.args = args,
                     !.env = env, !.threw = TRUE]
      ELSE [c EXCEPT !.launched = TRUE, !.launchExe = exe, !.args = args,
                     !.env = env, !.child = "running", !.spawns = @ + 1]

\* childProcess.spawn throws a TypeError when the file is not a string.
spawnLektor(c, exe, args) ==
  LET env == LaunchEnv(processEnv, currentLanguage)
  IN  IF exe = NULL \/ exe = UNDEFINED
      THEN [c EXCEPT !.launched = TRUE, !.launchExe = exe, !.args = args,
                     !.env = env, !.threw = TRUE]
      ELSE [c EXCEPT !.launched = TRUE, !.launchExe = exe, !.args = args,
                     !.env = env, !.child = "running", !.spawns = @ + 1]

CannotLocate == <<"Cannot locate Lektor executable">>

FailedToLaunch == <<"Failed to launch Lektor executable">>

DefaultPort == "5000"

\* checkLektor with "reject(...)" in place of "return reject(...)".
checkLektorNoReturn(exe, looked) ==
  LET c == [NewCall("check", exe, looked) EXCEPT !.promise = "pending"]
  IN  IF ~Truthy(exe)
      THEN spawnLektor(Reject(c, CannotLocate), exe, <<"--version">>)
      ELSE spawnLektor(c, exe, <<"--version">>)

\* LektorInterop.checkLektor, up to the return of the promise.
checkLektor(exe, looked) ==
  LET c == [NewCall("check", exe, looked) EXCEPT !.promise = "pending"]
  IN  IF ~Truthy(exe)
      THEN Reject(c, CannotLocate)
      ELSE spawnLektor(c, exe, <<"--version">>)

\* A data listener that resolves as soon as the buffer matches.
checkOnDataEager(c, data) ==
  LET d == [c EXCEPT !.buf = @ \o data]
      m == VersionMatch(d.buf)
  IN  IF m.matched THEN Resolve(d, m.group) ELSE d

\* child.stdout.on('data') of checkLektor
\* The data listener of checkLektor appending to a buffer it shares with the
\* first call.
checkOnDataSharedBuffer(c, data) == [c EXCEPT !.buf = calls[1].buf \o data]

checkOnData(c, data) == [c EXCEPT !.buf = @ \o data]

\* The close listener of checkLektor resolving only after a clean exit.
checkOnCloseCleanExit(c, code) ==
  LET m == VersionMatch(c.buf)
  IN  IF m.matched /\ code = "0"
      THEN Resolve(c, m.group)
      ELSE Reject(c, FailedToLaunch)

\* child.on('close') of checkLektor
checkOnClose(c, code) ==
  LET m == VersionMatch(c.buf)
  IN  IF m.matched THEN Resolve(c, m.group) ELSE Reject(c, FailedToLaunch)

\* LektorInterop.analyzeProject, up to the return of the promise.
analyzeProject(exe, looked) ==
  LET c == [NewCall("analyze", exe, looked) EXCEPT !.promise = "pending"]
  IN  IF ~Truthy(exe)
      THEN Reject(c, CannotLocate)
      ELSE spawnLektor(c, exe,
                       <<"--project", ProjectPath, "project-info", "--json">>)

\* child.stdout.on('data') of analyzeProject
analyzeOnData(c, data) == [c EXCEPT !.buf = @ \o data]

\* A close listener that decodes the buffer whatever the exit code.
analyzeOnCloseAlwaysParse(c, code) ==
  LET p == JSONParse(c.buf)
      d == [c EXCEPT !.parses = @ + 1]
  IN  IF p.ok THEN Resolve(d, p.value) ELSE [d EXCEPT !.uncaught = TRUE]

\* child.on('close') of analyzeProject.  A SyntaxError of JSON.parse leaves the
\* listener before resolve is called; nothing catches it.
analyzeOnClose(c, code) ==
  IF code = "0"
  THEN LET p == JSONParse(c.buf)
           d == [c EXCEPT !.parses = @ + 1]
       IN  IF p.ok THEN Resolve(d, p.value) ELSE [d EXCEPT !.uncaught = TRUE]
  ELSE Resolve(c, NULL)

\* LektorInterop.spawnServer with the LektorServer constructor; portIn is
\* options.port as passed, and options.statusLineCallback is a function.
spawnServer(portIn, exe, looked) ==
  LET port == IF portIn \in {"undefined", "0"} THEN DefaultPort ELSE portIn
      c0   == [NewCall("server", exe, looked)
                 EXCEPT !.port = port, !.portIn = portIn]
      c1   == spawnLektor(c0, exe, <<"--project", ProjectPath, "devserver",
                                     "--port", port>>)
  IN  IF c1.threw
      THEN c1
      ELSE [c1 EXCEPT !.handle = TRUE, !.state = "starting",
                      !.thisChild = c1.spawns]

\* One call of this._statusLineCallback.
Callback(from, line) == [from |-> from, line |-> line]

\* The lines of a chunk delivered last to first.
RECURSIVE ForEachLineReversed(_, _)
ForEachLineReversed(log, lines) ==
  IF lines = <<>>
  THEN log
  ELSE ForEachLineReversed(
         Append(log, Callback("data", TrimRight(lines[Len(lines)]))),
         SubSeq(lines, 1, Len(lines) - 1))

\* lines.forEach(line => this._statusLineCallback(line.trimRight()))
RECURSIVE ForEachLine(_, _)
ForEachLine(log, lines) ==
  IF lines = <<>>
  THEN log
  ELSE ForEachLine(Append(log, Callback("data", TrimRight(Head(lines)))),
                   Tail(lines))

\* child.stdout.on('data') of LektorServer
serverOnData(c, data) ==
  [c EXCEPT !.log = ForEachLine(@, SplitLines(data))]

ShutDownLine(code) == <<"Server shut down with code ", code>>

\* The close listener of LektorServer starting a new child in place of the one
\* that ended.
serverOnCloseRestart(c, code) ==
  [c EXCEPT !.log = Append(@, Callback("close", ShutDownLine(code))),
            !.spawns = @ + 1,
            !.thisChild = c.spawns + 1]

\* child.on('close') of LektorServer
serverOnClose(c, code) ==
  [c EXCEPT !.log = Append(@, Callback("close", ShutDownLine(code)))]

\* shutdown() that reports the shutdown itself.
shutdownAnnouncing(c) ==
  [c EXCEPT !.killed = @ \/ c.child = "running",
            !.log = Append(@, Callback("close", ShutDownLine("null")))]

\* LektorServer.shutdown: this._child.kill('SIGHUP'); the signal is sent only
\* while the child is alive.
shutdown(c) == [c EXCEPT !.killed = @ \/ c.child = "running"]

getUrl(c) == <<"http://localhost:", c.port, "/">>

getAdminUrl(c) == getUrl(c) \o <<"admin/">>

\* ------------------------------------------------------------------ actions

NoFind ==
  [ done |-> FALSE, accessOk |-> FALSE,
    which |-> [status |-> 1, stdout |-> <<>>],
    ret |-> NULL, bundled |-> NULL,
    globalInvoked |-> FALSE, whichInvoked |-> FALSE ]

Init ==
  /\ platform \in Platforms
  /\ processEnv = [PATH |-> "/usr/bin", HOME |-> "/home/u"]
  /\ currentLanguage = "en"
  /\ lektorExecutable = NULL
  /\ lastFind = NoFind
  /\ calls = <<>>

\* this.getLektorExecutable() as the first statement of an operation, in a file
\* system where the bundled binary is executable or not (accessOk) and `which`
\* answers which.
Get(accessOk, which) ==
  getLektorExecutable(lektorExecutable, platform, accessOk, which)

\* lastFind after that call: what findLektorExecutable saw and did, if it ran.
Found(accessOk, which) ==
  LET f == findLektorExecutable(platform, accessOk, which)
  IN  IF Get(accessOk, which).looked
      THEN [ done |-> TRUE, accessOk |-> accessOk,
             which |-> IF f.whichInvoked THEN which ELSE NoFind.which,
             ret |-> f.ret, bundled |-> f.bundled,
             globalInvoked |-> f.globalInvoked,
             whichInvoked |-> f.whichInvoked ]
      ELSE lastFind

\* max is the number of calls the run may make.
CheckLektor(max) ==
  /\ Len(calls) < max
  /\ \E accessOk \in BOOLEAN, which \in WhichResults :
       LET g == Get(accessOk, which)
       IN  /\ lektorExecutable' = g.cache
           /\ lastFind' = Found(accessOk, which)
           /\ calls' = Append(calls, checkLektor(g.ret, g.looked))
  /\ UNCHANGED <<platform, processEnv, currentLanguage>>

AnalyzeProject(max) ==
  /\ Len(calls) < max
  /\ \E accessOk \in BOOLEAN, which \in WhichResults :
       LET g == Get(accessOk, which)
       IN  /\ lektorExecutable' = g.cache
           /\ lastFind' = Found(accessOk, which)
           /\ calls' = Append(calls, analyzeProject(g.ret, g.looked))
  /\ UNCHANGED <<platform, processEnv, currentLanguage>>

SpawnServer(max) ==
  /\ Len(calls) < max
  /\ \E portIn \in PortInputs, accessOk \in BOOLEAN, which \in WhichResults :
       LET g == Get(accessOk, which)
       IN  /\ lektorExecutable' = g.cache
           /\ lastFind' = Found(accessOk, which)
           /\ calls' = Append(calls, spawnServer(portIn, g.ret, g.looked))
  /\ UNCHANGED <<platform, processEnv, currentLanguage>>

\* The user picks another UI language.
SetLanguage ==
  /\ currentLanguage' \in Languages \ {currentLanguage}
  /\ UNCHANGED <<platform, processEnv, lektorExecutable, lastFind, calls>>

\* Everything call i's child has written so far.
RECURSIVE Flatten(_)
Flatten(ss) == IF ss = <<>> THEN <<>> ELSE Head(ss) \o Flatten(Tail(ss))

Written(c) == IF c.kind = "server" THEN Flatten(c.chunks) ELSE c.out

\* The chunks call i's child can deliver next.
NextChunks(c) ==
  UNION { { SubSeq(o, Len(Written(c)) + 1, n) :
              n \in (Len(Written(c)) + 1)..Len(o) } :
          o \in {x \in Outputs(c.kind) : Written(c) \in Prefixes(x)} }

Running(i, kind) ==
  /\ i \in 1..Len(calls)
  /\ calls[i].kind = kind
  /\ calls[i].child = "running"

Step(i, c) ==
  /\ calls' = [calls EXCEPT ![i] = c]
  /\ UNCHANGED <<platform, processEnv, currentLanguage, lektorExecutable, lastFind>>

CheckData ==
  \E i \in DOMAIN calls :
    /\ Running(i, "check")
    /\ \E data \in NextChunks(calls[i]) :
         Step(i, [checkOnData(calls[i], data) EXCEPT !.out = @ \o data])

CheckClose ==
  \E i \in DOMAIN calls :
    /\ Running(i, "check")
    /\ \E code \in Codes(calls[i]) :
       Step(i, [checkOnClose(calls[i], code)
                  EXCEPT !.child = "closed", !.code = code])

AnalyzeData ==
  \E i \in DOMAIN calls :
    /\ Running(i, "analyze")
    /\ \E data \in NextChunks(calls[i]) :
         Step(i, [analyzeOnData(calls[i], data) EXCEPT !.out = @ \o data])

AnalyzeClose ==
  \E i \in DOMAIN calls :
    /\ Running(i, "analyze")
    /\ \E code \in Codes(calls[i]) :
       Step(i, [analyzeOnClose(calls[i], code)
                  EXCEPT !.child = "closed", !.code = code])

ServerData ==
  \E i \in DOMAIN calls :
    /\ Running(i, "server")
    /\ \E data \in NextChunks(calls[i]) :
         Step(i, [serverOnData(calls[i], data)
                    EXCEPT !.chunks = Append(@, data)])

ServerClose ==
  \E i \in DOMAIN calls :
    /\ Running(i, "server")
    /\ \E code \in Codes(calls[i]) :
       Step(i, [serverOnClose(calls[i], code)
                  EXCEPT !.child = "closed", !.code = code])

Shutdown ==
  \E i \in DOMAIN calls :
    /\ i \in 1..Len(calls)
    /\ calls[i].handle
    /\ Step(i, shutdown(calls[i]))

\* The caller assigns the port of the options object it passed to spawnServer,
\* which is the object the handle keeps as this.options.
SetPort ==
  \E i \in DOMAIN calls :
    /\ i \in 1..Len(calls)
    /\ calls[i].handle
    /\ \E p \in LaterPorts \ {calls[i].port} :
         Step(i, [calls[i] EXCEPT !.port = p])

\* The child's 'error' event (the spawn failed).  No operation listens for it,
\* so the emitter throws and no 'close' event follows.
ChildError ==
  \E i \in DOMAIN calls :
    /\ i \in 1..Len(calls)
    /\ calls[i].child = "running"
    /\ Written(calls[i]) = <<>>
    /\ Step(i, [calls[i] EXCEPT !.child = "errored", !.uncaught = TRUE])

Next ==
  \/ CheckLektor(MaxCalls)
  \/ AnalyzeProject(MaxCalls)
  \/ SpawnServer(MaxCalls)
  \/ CheckData
  \/ CheckClose
  \/ AnalyzeData
  \/ AnalyzeClose
  \/ ServerData
  \/ ServerClose
  \/ Shutdown
  \/ ChildError

Spec == Init /\ [][Next]_vars

\* The same program making at most SoloCalls calls.
NextSolo ==
  \/ CheckLektor(SoloCalls)
  \/ AnalyzeProject(SoloCalls)
  \/ SpawnServer(SoloCalls)
  \/ CheckData
  \/ CheckClose
  \/ AnalyzeData
  \/ AnalyzeClose
  \/ ServerData
  \/ ServerClose
  \/ Shutdown
  \/ ChildError

SpecSolo == Init /\ [][NextSolo]_vars

\* The same program making at most SilentCalls calls, with children that write
\* nothing to stdout before they close and handles nobody shuts down.
NextSilent ==
  \/ CheckLektor(SilentCalls)
  \/ AnalyzeProject(SilentCalls)
  \/ SpawnServer(SilentCalls)
  \/ CheckClose
  \/ AnalyzeClose
  \/ ServerClose
  \/ ChildError

SpecSilent == Init /\ [][NextSilent]_vars

\* The three operations up to the launch of their children, at most
\* LaunchCalls times, in a process with any of ProcessEnvs as its environment
\* and a user who switches between Languages.
InitLaunch ==
  /\ platform \in Platforms
  /\ processEnv \in ProcessEnvs
  /\ currentLanguage \in Languages
  /\ lektorExecutable = NULL
  /\ lastFind = NoFind
  /\ calls = <<>>

NextLaunch ==
  \/ CheckLektor(LaunchCalls)
  \/ AnalyzeProject(LaunchCalls)
  \/ SpawnServer(LaunchCalls)
  \/ SetLanguage

SpecLaunch == InitLaunch /\ [][NextLaunch]_vars

\* At most OverlapCalls calls whose children run side by side: the one-shot
\* children write and close in any interleaving, the server children stay up.
NextOverlap ==
  \/ CheckLektor(OverlapCalls)
  \/ AnalyzeProject(OverlapCalls)
  \/ SpawnServer(OverlapCalls)
  \/ CheckData
  \/ CheckClose
  \/ AnalyzeData
  \/ AnalyzeClose

SpecOverlap == Init /\ [][NextOverlap]_vars

\* spawnServer, at most SoloCalls times, with the events of the handle and a
\* caller that keeps using the options object it passed.
NextHandle ==
  \/ SpawnServer(SoloCalls)
  \/ ServerData
  \/ ServerClose
  \/ Shutdown
  \/ ChildError
  \/ SetPort

SpecHandle == Init /\ [][NextHandle]_vars

\* One checkLektor call on linux with a located executable, whose child writes
\* any text of at most MaxProbeLen units, one unit per data event, and closes
\* with any exit code.
InitProbe ==
  LET w == [status |-> 0, stdout |-> <<"/usr/bin/lektor", "LF">>]
      f == findLektorExecutable("linux", FALSE, w)
  IN  /\ platform = "linux"
      /\ processEnv = [PATH |-> "/usr/bin", HOME |-> "/home/u"]
      /\ currentLanguage = "en"
      /\ lektorExecutable = f.ret
      /\ lastFind = [ done |-> TRUE, accessOk |-> FALSE, which |-> w,
                      ret |-> f.ret, bundled |-> f.bundled,
                      globalInvoked |-> f.globalInvoked,
                      whichInvoked |-> f.whichInvoked ]
      /\ calls = <<checkLektor(f.ret, TRUE)>>

ProbeData ==
  \E i \in DOMAIN calls :
    /\ Running(i, "check")
    /\ Len(calls[i].out) < MaxProbeLen
    /\ \E u \in ProbeUnits :
         Step(i, [checkOnData(calls[i], <<u>>) EXCEPT !.out = @ \o <<u>>])

NextProbe ==
  \/ ProbeData
  \/ CheckClose

SpecProbe == InitProbe /\ [][NextProbe]_vars

\* ------------------------------------------------------------------ claims

IsCall(i, kind) == i \in DOMAIN calls /\ calls[i].kind = kind

\* C1 (as claimed): every analyzeProject call with a located executable whose
\* child has closed, whatever its output and exit code, has had its promise
\* settled exactly once.
C1_AnalyzeSettledOnce ==
  \A i \in DOMAIN calls :
    (IsCall(i, "analyze") /\ calls[i].launched /\ calls[i].child = "closed")
      => (calls[i].settles = 1 /\ calls[i].promise \in {"resolved", "rejected"})

\* C2: the promise of a checkLektor call that spawned a child is pending and
\* untouched until the child's close event, and from the step that handles the
\* close event on it is settled, by exactly one call of resolve or reject.
C2_CheckSettledAtClose ==
  \A i \in DOMAIN calls :
    (IsCall(i, "check") /\ calls[i].launched)
      => IF calls[i].child = "closed"
         THEN calls[i].settles = 1 /\ calls[i].promise \in {"resolved", "rejected"}
         ELSE calls[i].settles = 0 /\ calls[i].promise = "pending"

C2_Witness ==
  \E i \in DOMAIN calls :
    /\ IsCall(i, "check")
    /\ calls[i].child = "closed"
    /\ calls[i].buf = <<"Lektor", "SP", "version", "SP", "1.0", "LF">>
    /\ calls[i].promise = "resolved"
    /\ calls[i].settles = 1

\* C3: a checkLektor or analyzeProject call for which the locator yielded no
\* executable is rejected with 'Cannot locate Lektor executable' and has
\* spawned no child.
C3_NoExecutableRejects ==
  \A i \in DOMAIN calls :
    (calls[i].kind \in {"check", "analyze"} /\ calls[i].exe = NULL)
      => /\ calls[i].promise = "rejected"
         /\ calls[i].value = CannotLocate
         /\ calls[i].settles = 1
         /\ ~calls[i].launched
         /\ calls[i].child = "none"

C3_Witness ==
  \E i \in DOMAIN calls :
    /\ IsCall(i, "analyze")
    /\ calls[i].exe = NULL
    /\ calls[i].looked
    /\ calls[i].promise = "rejected"

\* C4 (as claimed): a spawnServer call for which the locator yielded no
\* executable does not call the process launcher and returns no server handle.
C4_SpawnServerFailsWithoutLaunch ==
  \A i \in DOMAIN calls :
    (IsCall(i, "server") /\ calls[i].exe = NULL)
      => (~calls[i].launched /\ ~calls[i].handle)

\* C5: an analyzeProject call whose child closed with a non-zero exit code has
\* resolved with null, was never rejected, and never decoded its buffer.
C5_NonZeroExitResolvesNull ==
  \A i \in DOMAIN calls :
    (IsCall(i, "analyze") /\ calls[i].child = "closed" /\ calls[i].code # "0")
      => /\ calls[i].promise = "resolved"
         /\ calls[i].value = NULL
         /\ calls[i].settles = 1
         /\ calls[i].parses = 0
         /\ ~calls[i].uncaught

C5_Witness ==
  \E i \in DOMAIN calls :
    /\ IsCall(i, "analyze")
    /\ calls[i].child = "closed"
    /\ calls[i].code = "1"
    /\ JSONParse(calls[i].buf).ok
    /\ calls[i].promise = "resolved"
    /\ calls[i].value = NULL

\* The status lines of one chunk, first to last.
ChunkLines(data) ==
  [k \in 1..Len(SplitLines(data)) |->
     Callback("data", TrimRight(SplitLines(data)[k]))]

\* The status lines of a sequence of chunks, in the order of arrival.
RECURSIVE InArrivalOrder(_)
InArrivalOrder(chunks) ==
  IF chunks = <<>>
  THEN <<>>
  ELSE ChunkLines(Head(chunks)) \o InArrivalOrder(Tail(chunks))

\* C6: the callbacks of a server handle are the lines of its chunks in the
\* order the chunks arrived and in their order within each chunk, followed,
\* once the child has closed, by the 'Server shut down with code N' line.
C6_CallbacksInArrivalOrder ==
  \A i \in DOMAIN calls :
    (IsCall(i, "server") /\ calls[i].handle)
      => calls[i].log =
           InArrivalOrder(calls[i].chunks)
             \o (IF calls[i].child = "closed"
                 THEN <<Callback("close", ShutDownLine(calls[i].code))>>
                 ELSE <<>>)

C6_Witness ==
  \E i \in DOMAIN calls :
    /\ IsCall(i, "server")
    /\ calls[i].child = "closed"
    /\ calls[i].chunks = << <<"a">>, <<"LF", "b">> >>
    /\ Len(calls[i].log) = 4

\* The lines of a text that are ended by a line ending, trailing white space
\* trimmed: all pieces between line endings but the remainder after the last.
CompleteLines(text) ==
  [k \in 1..(Len(SplitLines(text)) - 1) |-> TrimRight(SplitLines(text)[k])]

DataLines(log) ==
  LET data == SelectSeq(log, LAMBDA cb : cb.from = "data")
  IN  [k \in 1..Len(data) |-> data[k].line]

\* C7 (as claimed): however the output is cut into chunks, the lines delivered
\* from data are exactly the complete lines of the concatenated output.
C7_OneCallbackPerLogicalLine ==
  \A i \in DOMAIN calls :
    (IsCall(i, "server") /\ calls[i].handle)
      => DataLines(calls[i].log) = CompleteLines(Flatten(calls[i].chunks))

\* C8: a server handle has delivered no 'Server shut down with code N' line
\* while its child has not closed (shutdown() or not), and once the child has
\* closed that line, with the child's exit code, is in the log exactly once,
\* as the last callback.
C8_ShutDownLineOnceAndLast ==
  \A i \in DOMAIN calls :
    (IsCall(i, "server") /\ calls[i].handle)
      => LET log    == calls[i].log
             closes == {k \in DOMAIN log : log[k].from = "close"}
         IN  IF calls[i].child = "closed"
             THEN /\ closes = {Len(log)}
                  /\ log[Len(log)].line = ShutDownLine(calls[i].code)
             ELSE closes = {}

C8_Witness ==
  \E i \in DOMAIN calls :
    /\ IsCall(i, "server")
    /\ calls[i].killed
    /\ calls[i].child = "closed"
    /\ calls[i].code = "null"
    /\ Len(calls[i].chunks) >= 1
    /\ calls[i].log[Len(calls[i].log)].line = ShutDownLine("null")

\* C9: once a call has got a non-absent path from getLektorExecutable, every
\* later call gets the same path without running findLektorExecutable, and
\* the cached value stays that path.
C9_ExecutableMemoized ==
  \A i \in DOMAIN calls : \A j \in DOMAIN calls :
    (i < j /\ calls[i].exe # NULL)
      => /\ calls[j].exe = calls[i].exe
         /\ ~calls[j].looked
         /\ lektorExecutable = calls[i].exe

C9_Witness ==
  \E i \in DOMAIN calls : \E j \in DOMAIN calls : \E k \in DOMAIN calls :
    /\ i < j /\ j < k
    /\ {calls[i].kind, calls[j].kind, calls[k].kind}
         = {"check", "analyze", "server"}
    /\ calls[i].looked
    /\ calls[i].exe = <<"/opt/lektor">>
    /\ calls[j].exe = <<"/opt/lektor">> /\ ~calls[j].looked
    /\ calls[k].exe = <<"/opt/lektor">> /\ ~calls[k].looked

\* C10 (as claimed): when findLektorExecutable runs on darwin with the bundled
\* binary present and executable, it returns the bundled path and does not
\* invoke the global lookup.
C10_BundledPreferred ==
  (lastFind.done /\ platform = "darwin" /\ lastFind.accessOk)
    => (lastFind.ret = BundledExe /\ ~lastFind.globalInvoked)

\* t is s without the white space at its two ends.
IsTrimOf(t, s) ==
  /\ t # <<>> => ~IsWhite(t[1]) /\ ~IsWhite(t[Len(t)])
  /\ \E m \in 0..Len(s) :
       /\ m + Len(t) <= Len(s)
       /\ SubSeq(s, m + 1, m + Len(t)) = t
       /\ \A n \in (1..m) \cup ((m + Len(t) + 1)..Len(s)) : IsWhite(s[n])

\* C11 (as claimed): when no bundled binary was found, findLektorExecutable
\* has on every platform run the lookup utility, and returned its output
\* trimmed if its status was 0 and null otherwise.
C11_GlobalLookupOnEveryPlatform ==
  (lastFind.done /\ ~Truthy(lastFind.bundled))
    => /\ lastFind.whichInvoked
       /\ lastFind.which.status = 0 => IsTrimOf(lastFind.ret, lastFind.which.stdout)
       /\ lastFind.which.status # 0 => lastFind.ret = NULL

\* C11 (amended): when no bundled binary was found, findLektorExecutable has
\* on every platform other than win32 run the lookup utility, and returned its
\* output trimmed if its status was 0 and null otherwise; on win32 it has
\* returned 'lektor' without running the utility.
C11_GlobalLookupExceptWin32 ==
  (lastFind.done /\ ~Truthy(lastFind.bundled))
    => IF platform = "win32"
       THEN ~lastFind.whichInvoked /\ lastFind.ret = <<"lektor">>
       ELSE /\ lastFind.whichInvoked
            /\ lastFind.which.status = 0
                 => IsTrimOf(lastFind.ret, lastFind.which.stdout)
            /\ lastFind.which.status # 0 => lastFind.ret = NULL

C11_Witness ==
  /\ platform = "linux"
  /\ lastFind.done
  /\ lastFind.whichInvoked
  /\ lastFind.which.stdout = <<"SP", "/opt/lektor", "SP", "LF">>
  /\ lastFind.ret = <<"/opt/lektor">>

\* C12: every launch hands the child an env that holds LEKTOR_RUN_FROM_UI =
\* '1', LEKTOR_UI_LANG = the UI language of that moment, and every other
\* variable of process.env with its value, and nothing else; and the step
\* leaves process.env as it was.
C12_ChildEnvIsOverlay ==
  [][ Len(calls') = Len(calls) + 1 =>
        LET c == calls'[Len(calls')]
        IN  /\ processEnv' = processEnv
            /\ c.launched =>
                 /\ DOMAIN c.env =
                      DOMAIN processEnv \cup {"LEKTOR_RUN_FROM_UI", "LEKTOR_UI_LANG"}
                 /\ c.env["LEKTOR_RUN_FROM_UI"] = "1"
                 /\ c.env["LEKTOR_UI_LANG"] = currentLanguage
                 /\ \A key \in DOMAIN processEnv \
                                 {"LEKTOR_RUN_FROM_UI", "LEKTOR_UI_LANG"} :
                      c.env[key] = processEnv[key] ]_vars

C12_Witness ==
  \E i \in DOMAIN calls :
    /\ calls[i].child = "running"
    /\ processEnv["PATH"] = "/bin"
    /\ processEnv["LEKTOR_UI_LANG"] = "fr"
    /\ processEnv["LEKTOR_RUN_FROM_UI"] = "0"
    /\ calls[i].env["PATH"] = "/bin"
    /\ calls[i].env["LEKTOR_UI_LANG"] = "de"
    /\ calls[i].env["LEKTOR_RUN_FROM_UI"] = "1"

\* A word that is neither white space nor 'version': a version token X.Y.Z.
IsToken(u) == ~IsWhite(u) /\ ~IsVersionWord(u)

\* s[p] is 'version', s[q] is a token, and only white space, at least one
\* character of it, stands between them.
VersionAt(s, p, q) ==
  /\ p \in 1..Len(s) /\ q \in 1..Len(s)
  /\ IsVersionWord(s[p])
  /\ q > p + 1
  /\ \A n \in (p + 1)..(q - 1) : IsWhite(s[n])
  /\ IsToken(s[q])

OnlyWhiteAfter(s, q) == \A n \in (q + 1)..Len(s) : IsWhite(s[n])

OneVersionWord(s) == Cardinality({n \in 1..Len(s) : IsVersionWord(s[n])}) = 1

\* C13 (as claimed): when the child of a checkLektor call has closed, with any
\* exit code, and its output contains 'version X.Y.Z' at any position, the
\* very start included, the promise is resolved with exactly X.Y.Z.
C13_VersionAnywhere ==
  \A i \in DOMAIN calls :
    (IsCall(i, "check") /\ calls[i].child = "closed")
      => \A p, q \in 1..Len(calls[i].buf) :
           VersionAt(calls[i].buf, p, q)
             => /\ calls[i].promise = "resolved"
                /\ calls[i].value = <<calls[i].buf[q]>>

\* C13 (amended): when the child of a checkLektor call has closed, with any
\* exit code, and its output holds the word 'version' once, followed by white
\* space, X.Y.Z and nothing but white space up to the end, the promise is
\* resolved with exactly X.Y.Z if white space stands directly before
\* 'version', and rejected with FailedToLaunch if the output starts with it.
C13_VersionAfterWhiteSpace ==
  \A i \in DOMAIN calls :
    (IsCall(i, "check") /\ calls[i].child = "closed")
      => \A p, q \in 1..Len(calls[i].buf) :
           ( /\ VersionAt(calls[i].buf, p, q)
             /\ OneVersionWord(calls[i].buf)
             /\ OnlyWhiteAfter(calls[i].buf, q) )
             => /\ (p > 1 /\ IsWhite(calls[i].buf[p - 1]))
                     => /\ calls[i].promise = "resolved"
                        /\ calls[i].value = <<calls[i].buf[q]>>
                        /\ calls[i].settles = 1
                /\ p = 1
                     => /\ calls[i].promise = "rejected"
                        /\ calls[i].value = FailedToLaunch

C13_Witness ==
  \E i \in DOMAIN calls :
    /\ IsCall(i, "check")
    /\ calls[i].child = "closed"
    /\ calls[i].code = "1"
    /\ calls[i].buf = <<"1.0", "LF", "VERSION", "SP", "1.0">>
    /\ calls[i].promise = "resolved"
    /\ calls[i].value = <<"1.0">>

\* C14: when the child of a checkLektor call has closed and its output does
\* not hold the word 'version' (the empty output included), the promise is
\* rejected with 'Failed to launch Lektor executable', by the one call of
\* reject, even if the exit code is 0.
C14_NoVersionRejects ==
  \A i \in DOMAIN calls :
    ( /\ IsCall(i, "check")
      /\ calls[i].child = "closed"
      /\ \A n \in 1..Len(calls[i].buf) :
           calls[i].buf[n] \notin {"version", "Version", "VERSION"} )
      => /\ calls[i].promise = "rejected"
         /\ calls[i].value = <<"Failed to launch Lektor executable">>
         /\ calls[i].settles = 1

C14_Witness ==
  \E i \in DOMAIN calls :
    /\ IsCall(i, "check")
    /\ calls[i].child = "closed"
    /\ calls[i].code = "0"
    /\ calls[i].buf = <<"SP", "1.0", "SP", "1.0", "LF">>
    /\ calls[i].promise = "rejected"

\* C15 (as claimed): in every state of a server handle whose caller passed a
\* port or none, getUrl() is 'http://localhost:<port>/' and getAdminUrl() is
\* 'http://localhost:<port>/admin/' for the port passed to spawnServer, 5000
\* if none was passed.
C15_UrlsOfConfiguredPort ==
  \A i \in DOMAIN calls :
    (calls[i].handle /\ calls[i].portIn # "0")
      => LET configured == IF calls[i].portIn = "undefined"
                           THEN "5000"
                           ELSE calls[i].portIn
         IN  /\ getUrl(calls[i]) = <<"http://localhost:", configured, "/">>
             /\ getAdminUrl(calls[i]) =
                  <<"http://localhost:", configured, "/", "admin/">>

\* C16 (as claimed): once the child of a call has emitted 'error' (the spawn
\* failed), the failure has reached the caller: the promise of a checkLektor
\* or analyzeProject call is rejected, the status-line callback of a server
\* handle has been told, and no listener has thrown into the event loop.
C16_SpawnFailureSurfaces ==
  \A i \in DOMAIN calls :
    calls[i].child = "errored"
      => /\ calls[i].kind \in {"check", "analyze"}
              => calls[i].promise = "rejected"
         /\ calls[i].kind = "server"
              => \E n \in 1..Len(calls[i].log) : calls[i].log[n].from = "error"
         /\ ~calls[i].uncaught

\* Call c has launched a child of its own with the executable it was given.
HasOwnChild(c) ==
  /\ c.launched
  /\ c.launchExe = c.exe
  /\ c.child \in {"running", "closed", "errored"}

\* The buffer of a one-shot call holds what its own child wrote; its promise
\* is pending while that child runs, and once the child has closed the promise
\* is what the child's own output and exit code make it.
OwnResult(c) ==
  /\ c.kind \in {"check", "analyze"} => c.buf = c.out
  /\ (c.kind \in {"check", "analyze"} /\ c.child = "running")
       => c.promise = "pending"
  /\ (c.kind = "check" /\ c.child = "closed")
       => IF VersionMatch(c.out).matched
          THEN c.promise = "resolved" /\ c.value = VersionMatch(c.out).group
          ELSE c.promise = "rejected" /\ c.value = FailedToLaunch
  /\ (c.kind = "analyze" /\ c.child = "closed")
       => IF c.code # "0"
          THEN c.promise = "resolved" /\ c.value = NULL
          ELSE IF JSONParse(c.out).ok
          THEN c.promise = "resolved" /\ c.value = JSONParse(c.out).value
          ELSE c.promise = "pending"

\* C17 (as claimed): calls that overlap do not touch each other: every call
\* has launched one child of its own, whatever the other calls were doing, and
\* the result of a one-shot call comes from the output and exit code of its
\* own child.
C17_EveryCallOwnChild ==
  \A i \in DOMAIN calls : HasOwnChild(calls[i]) /\ OwnResult(calls[i])

\* C17 (amended): calls that overlap do not touch each other: every call that
\* got an executable has launched one child of its own, whatever the other
\* calls were doing, a call that got none has no child, and the result of a
\* one-shot call comes from the output and exit code of its own child.
C17_CallsIndependent ==
  \A i \in DOMAIN calls :
    /\ Truthy(calls[i].exe) => HasOwnChild(calls[i])
    /\ ~Truthy(calls[i].exe) => calls[i].child = "none"
    /\ OwnResult(calls[i])

C17_Witness ==
  /\ Len(calls) = 2
  /\ calls[1].kind = "check"
  /\ calls[1].child = "running"
  /\ calls[1].out = <<"Lektor", "SP", "version", "SP">>
  /\ calls[2].kind = "check"
  /\ calls[2].child = "closed"
  /\ calls[2].out = <<"VERSION", "SP", "2.0">>
  /\ calls[2].promise = "rejected"

\* C18 (as claimed): after a getLektorExecutable call that found no
\* executable, every later call returns null too, without running the lookups
\* again.
C18_FailureCached ==
  \A i, j \in DOMAIN calls :
    (i < j /\ calls[i].exe = NULL)
      => (calls[j].exe = NULL /\ ~calls[j].looked)

\* C18 (amended): a lookup that found no executable is not kept: the
\* getLektorExecutable call that follows one that returned null runs the
\* lookups again, and what it returns is what they found; the cached value is
\* null for as long as every call has returned null.
C18_FailureNotCached ==
  /\ \A j \in DOMAIN calls :
       (j > 1 /\ calls[j - 1].exe = NULL) => calls[j].looked
  /\ (calls # <<>> /\ calls[Len(calls)].looked)
       => calls[Len(calls)].exe = lastFind.ret
  /\ (\A i \in DOMAIN calls : calls[i].exe = NULL) => lektorExecutable = NULL

C18_Witness ==
  /\ Len(calls) >= 2
  /\ calls[1].exe = NULL
  /\ calls[2].looked
  /\ calls[2].exe = <<"/opt/lektor">>
  /\ lektorExecutable = <<"/opt/lektor">>

\* C19: in every state of a server handle (after data events, shutdown()
\* calls and the close event, in any order) exactly one child has been spawned
\* for it, and this._child is that child, the one the handle was constructed
\* with.
C19_HandleKeepsItsChild ==
  \A i \in DOMAIN calls :
    calls[i].handle
      => /\ calls[i].spawns = 1
         /\ calls[i].thisChild = 1
         /\ calls[i].child \in {"running", "closed", "errored"}

C19_Witness ==
  \E i \in DOMAIN calls :
    /\ calls[i].handle
    /\ calls[i].chunks # <<>>
    /\ calls[i].killed
    /\ calls[i].child = "closed"
    /\ calls[i].code = "null"
    /\ calls[i].spawns = 1
    /\ calls[i].thisChild = 1

\* C20 (as claimed): in every state of a server handle the port in getUrl()
\* and in getAdminUrl() is the port that was passed to the child after
\* '--port' when it was spawned, whatever the caller passed as port and
\* whatever it has done with its options object since.
C20_UrlPortIsChildPort ==
  \A i \in DOMAIN calls :
    calls[i].handle
      => /\ calls[i].args[4] = "--port"
         /\ getUrl(calls[i])[2] = calls[i].args[5]
         /\ getAdminUrl(calls[i])[2] = calls[i].args[5]

====
